---- MODULE Spec2Model ----
(***************************************************************************)
(* Vehicle Damage AI API (ai-backend/main.py): the /analyze endpoint, the   *)
(* pair analyzer and the per-image detection loop, as a state machine.      *)
(*                                                                         *)
(* The two neural models and PIL are external collaborators.  An uploaded   *)
(* image is identified with what they compute from its bytes: whether it    *)
(* decodes, its shape, the detector's boxes in the detector's order, and    *)
(* for each box the outcome of cropping and of severity prediction.         *)
(***************************************************************************)
EXTENDS Integers, Sequences, FiniteSets, TLC

(***************************************************************************)
(* Bounds of the model.                                                     *)
(***************************************************************************)
\* Largest image side, in pixels.
MaxDim == 4
\* Pixel coordinates are enumerated in steps of 1/SubPixel of a pixel.
SubPixel == 3
\* Number of /analyze requests in flight in the concurrent specification.
NumReqs == 2
\* Number of distinct values uuid4() can return.
MaxUUID == 4

(***************************************************************************)
(* The floating-point format of box.xyxy[0].cpu().numpy(): IEEE 754         *)
(* binary32 (numpy float32).                                                *)
(***************************************************************************)
\* Significand width in bits, hidden bit included.
MantBits == 24
\* The smallest spacing of the format is 2^-MaxFrac (gradual underflow).
MaxFrac == 149

(***************************************************************************)
(* Floating point.  A float is <<n, k>>, the dyadic rational n / 2^k, kept  *)
(* in lowest terms.  Every operation is the exact result rounded to         *)
(* MantBits significant bits, ties to even (IEEE 754 default).  Python int  *)
(* operands take the array scalar's type (NumPy 2 promotion), so every      *)
(* operation of bbox_norm is a float32 operation.                           *)
(***************************************************************************)
Pow2(k) == 2 ^ k

Max(a, b) == IF a >= b THEN a ELSE b

RECURSIVE Canon(_, _)
Canon(n, k) == IF k > 0 /\ n % 2 = 0 THEN Canon(n \div 2, k - 1) ELSE <<n, k>>

\* q + r / d (0 <= r < d) rounded to the nearest integer, ties to even.
RoundHalfEven(q, r, d) ==
    IF 2 * r > d \/ (2 * r = d /\ q % 2 = 1) THEN q + 1 ELSE q

\* Binary long division of a value q + r / d below 2^MantBits: one more
\* fraction bit per step until the value is exact, the significand is full
\* or the spacing has reached 2^-MaxFrac.  The result <<q, r, k>> is the
\* value times 2^k as q + r / d.
RECURSIVE Scale(_, _, _, _)
Scale(q, r, d, k) ==
    IF r # 0 /\ k < MaxFrac /\ q < Pow2(MantBits - 1)
    THEN Scale(2 * q + (IF 2 * r >= d THEN 1 ELSE 0), (2 * r) % d, d, k + 1)
    ELSE <<q, r, k>>

\* The float nearest to the rational n / d (d > 0, |n / d| < 2^MantBits).
Fl(n, d) ==
    LET a == IF n < 0 THEN -n ELSE n
        s == Scale(a \div d, a % d, d, 0)
        m == RoundHalfEven(s[1], s[2], d)
    IN  Canon(IF n < 0 THEN -m ELSE m, s[3])

\* numpy float32 subtraction: x2 - x1.
FSub(a, b) ==
    LET k == Max(a[2], b[2])
    IN  Fl(a[1] * Pow2(k - a[2]) - b[1] * Pow2(k - b[2]), Pow2(k))

\* numpy float32 divided by a Python int: x1 / w.
FDiv(a, w) == Fl(a[1], Pow2(a[2]) * w)

\* Exact comparisons and sum of floats (what a reader of the JSON computes).
FLeq(a, b) ==
    LET k == Max(a[2], b[2])
    IN  a[1] * Pow2(k - a[2]) <= b[1] * Pow2(k - b[2])

FAdd(a, b) ==
    LET k == Max(a[2], b[2])
    IN  Canon(a[1] * Pow2(k - a[2]) + b[1] * Pow2(k - b[2]), k)

FZero == <<0, 0>>
FOne == <<1, 0>>
FInt(i) == <<i, 0>>

\* The float32 values nearest to j / SubPixel pixels, from 0 to d pixels.
CoordSet(d) == { Fl(j, SubPixel) : j \in 0..(d * SubPixel) }

(***************************************************************************)
(* run_yolo_on_image, lines 127-132: the normalized bounding box.           *)
(***************************************************************************)
\* Variant: orig_shape unpacked as (width, height).
bbox_norm_swapped(xyxy, h, w) ==
    [ x      |-> FDiv(xyxy[1], h),
      y      |-> FDiv(xyxy[2], w),
      width  |-> FDiv(FSub(xyxy[3], xyxy[1]), h),
      height |-> FDiv(FSub(xyxy[4], xyxy[2]), w) ]

\* h, w = results.orig_shape; every operation in float32.
bbox_norm(xyxy, h, w) ==
    [ x      |-> FDiv(xyxy[1], w),
      y      |-> FDiv(xyxy[2], h),
      width  |-> FDiv(FSub(xyxy[3], xyxy[1]), w),
      height |-> FDiv(FSub(xyxy[4], xyxy[2]), h) ]

(***************************************************************************)
(* Section 1, CONFIG.                                                       *)
(***************************************************************************)
SEVERITY_CLASSES == <<"minor", "moderate", "severe">>

None == "None"

(***************************************************************************)
(* The uploaded byte strings of the model and what the external libraries   *)
(* compute from them.                                                       *)
(***************************************************************************)
\* A pixel coordinate j / 2^k as a float.
Px(j, k) == Canon(j, k)

\* Image.open(path).convert("RGB") succeeds on these bytes.
Decodable(bytes) == bytes \in {"clean", "one", "two", "bad_crop", "bad_pred", "no_yolo"}

\* yolo_model(path) raises on these bytes.
YoloRaises(bytes) == bytes = "no_yolo"

\* yolo_model(path)[0]: orig_shape is (height, width); boxes are in the
\* detector's own order, each with the outcome of crop_patch on it ("ok" or
\* "error") and the severity model's scores for the patch (<<>>: predict
\* raises).
YoloResults(bytes) ==
    CASE bytes = "one" ->
           [ orig_shape |-> <<2, MaxDim>>,
             boxes |-> << [ xyxy |-> <<Px(1, 2), Px(0, 0), Px(MaxDim, 0), Px(1, 0)>>,
                            cls |-> 0, crop |-> "ok", preds |-> <<10, 70, 20>> ] >> ]
      [] bytes = "two" ->
           [ orig_shape |-> <<MaxDim, 2>>,
             boxes |-> << [ xyxy |-> <<Px(1, 0), Px(2, 0), Px(2, 0), Px(MaxDim, 0)>>,
                            cls |-> 7, crop |-> "ok", preds |-> <<5, 15, 80>> ],
                          [ xyxy |-> <<Px(0, 0), Px(1, 1), Px(3, 1), Px(1, 0)>>,
                            cls |-> 1, crop |-> "ok", preds |-> <<40, 40, 20>> ] >> ]
      [] bytes = "bad_crop" ->
           [ orig_shape |-> <<2, 2>>,
             boxes |-> << [ xyxy |-> <<Px(0, 0), Px(0, 0), Px(1, 0), Px(1, 0)>>,
                            cls |-> 0, crop |-> "ok", preds |-> <<60, 30, 10>> ],
                          [ xyxy |-> <<Px(1, 0), Px(1, 0), Px(1, 0), Px(2, 0)>>,
                            cls |-> 1, crop |-> "error", preds |-> <<>> ] >> ]
      [] bytes = "bad_pred" ->
           [ orig_shape |-> <<2, 2>>,
             boxes |-> << [ xyxy |-> <<Px(0, 0), Px(0, 0), Px(1, 0), Px(1, 0)>>,
                            cls |-> 1, crop |-> "ok", preds |-> <<20, 30, 50>> ],
                          [ xyxy |-> <<Px(1, 0), Px(1, 0), Px(2, 0), Px(2, 0)>>,
                            cls |-> 0, crop |-> "ok", preds |-> <<>> ] >> ]
      [] OTHER ->
           [ orig_shape |-> <<2, MaxDim>>, boxes |-> <<>> ]

\* results.names: the detector's class-index lookup.
names == [ c \in {0, 1} |-> IF c = 0 THEN "dent" ELSE " scratch " ]

\* results.names.get(cls_id, f"class_{cls_id}")
raw_type_name(cls_id) ==
    IF cls_id \in DOMAIN names THEN names[cls_id] ELSE "class_" \o ToString(cls_id)

\* raw_type_name.strip().title() on the names above.
damage_type_label(raw) ==
    CASE raw = "dent" -> "Dent"
      [] raw = " scratch " -> "Scratch"
      [] raw = "class_7" -> "Class_7"
      [] OTHER -> raw

(***************************************************************************)
(* predict_severity, lines 99-104.                                          *)
(***************************************************************************)
\* int(np.argmax(preds)): the first index (from 0) of the largest score.
argmax(preds) ==
    CHOOSE i \in 0..(Len(preds) - 1) :
        /\ \A j \in 0..(Len(preds) - 1) : preds[j + 1] <= preds[i + 1]
        /\ \A j \in 0..(i - 1) : preds[j + 1] < preds[i + 1]

predict_severity(preds) == SEVERITY_CLASSES[argmax(preds) + 1]

(***************************************************************************)
(* run_yolo_on_image, lines 107-145.                                        *)
(***************************************************************************)
\* Variant: the id without the image tag.
damage_id_untagged(image_type, i) == "damage-" \o ToString(i)

\* id=f"{image_type}-{i}"
damage_id(image_type, i) == image_type \o "-" \o ToString(i)

Damage(image_type, i, box, h, w) ==
    [ id        |-> damage_id(image_type, i),
      imageType |-> image_type,
      area      |-> "Unknown area",
      type      |-> damage_type_label(raw_type_name(box.cls)),
      severity  |-> predict_severity(box.preds),
      bbox      |-> bbox_norm(box.xyxy, h, w) ]

\* The loop of lines 114-143 from index i (counted from 0) on, with the
\* records appended so far.  A raise in crop_patch or predict_severity leaves
\* the function: the records built so far are lost with its frame.
\* Variant: a box whose patch raises is skipped and the loop goes on.
RECURSIVE detect_loop_skipping(_, _, _, _)
detect_loop_skipping(results, image_type, i, damages) ==
    IF i >= Len(results.boxes)
    THEN [ exc |-> None, damages |-> damages ]
    ELSE LET box == results.boxes[i + 1]
         IN  IF box.crop # "ok" \/ box.preds = <<>>
             THEN detect_loop_skipping(results, image_type, i + 1, damages)
             ELSE detect_loop_skipping(results, image_type, i + 1,
                      Append(damages, Damage(image_type, i, box,
                                             results.orig_shape[1], results.orig_shape[2])))

RECURSIVE detect_loop(_, _, _, _)
detect_loop(results, image_type, i, damages) ==
    IF i >= Len(results.boxes)
    THEN [ exc |-> None, damages |-> damages ]
    ELSE LET box == results.boxes[i + 1]
         IN  IF box.crop # "ok"
             THEN [ exc |-> "crop_patch", damages |-> <<>> ]
             ELSE IF box.preds = <<>>
             THEN [ exc |-> "predict_severity", damages |-> <<>> ]
             ELSE detect_loop(results, image_type, i + 1,
                      Append(damages, Damage(image_type, i, box,
                                             results.orig_shape[1], results.orig_shape[2])))

\* Variant: the temporary path written into the records.
run_yolo_on_image_pathdep(fsys, image_path, image_type) ==
    IF image_path \notin DOMAIN fsys \/ ~Decodable(fsys[image_path])
    THEN [ exc |-> "load_image", damages |-> <<>> ]
    ELSE IF YoloRaises(fsys[image_path])
    THEN [ exc |-> "yolo_model", damages |-> <<>> ]
    ELSE LET r == detect_loop(YoloResults(fsys[image_path]), image_type, 0, <<>>)
         IN  [ exc |-> r.exc,
               damages |-> [ k \in DOMAIN r.damages |->
                               [ r.damages[k] EXCEPT !.area = image_path ] ] ]

\* Variant: the loop entered at the second box.
run_yolo_on_image_skip_first(fsys, image_path, image_type) ==
    IF image_path \notin DOMAIN fsys \/ ~Decodable(fsys[image_path])
    THEN [ exc |-> "load_image", damages |-> <<>> ]
    ELSE IF YoloRaises(fsys[image_path])
    THEN [ exc |-> "yolo_model", damages |-> <<>> ]
    ELSE detect_loop(YoloResults(fsys[image_path]), image_type, 1, <<>>)

\* fsys is the file system the two models and PIL read image_path from.
run_yolo_on_image(fsys, image_path, image_type) ==
    IF image_path \notin DOMAIN fsys \/ ~Decodable(fsys[image_path])
    THEN [ exc |-> "load_image", damages |-> <<>> ]
    ELSE IF YoloRaises(fsys[image_path])
    THEN [ exc |-> "yolo_model", damages |-> <<>> ]
    ELSE detect_loop(YoloResults(fsys[image_path]), image_type, 0, <<>>)

(***************************************************************************)
(* analyze_pair, lines 148-168.                                             *)
(***************************************************************************)
\* Variant: the two lists concatenated the other way round.
all_damages_reversed(before_damages, after_damages) == after_damages \o before_damages

\* all_damages = before_damages + after_damages
all_damages(before_damages, after_damages) == before_damages \o after_damages

\* Variant: the BEFORE and AFTER messages exchanged.
summary_message_swapped(nb, na) ==
    IF nb = 0 /\ na = 0 THEN "No damage detected in either image."
    ELSE IF nb = 0 /\ na > 0 THEN "No damage detected in AFTER image."
    ELSE IF nb > 0 /\ na = 0 THEN "No damage detected in BEFORE image."
    ELSE "Damage detected successfully."

\* Lines 155-162, on len(before_damages) and len(after_damages).
summary_message(nb, na) ==
    IF nb = 0 /\ na = 0 THEN "No damage detected in either image."
    ELSE IF nb = 0 /\ na > 0 THEN "No damage detected in BEFORE image."
    ELSE IF nb > 0 /\ na = 0 THEN "No damage detected in AFTER image."
    ELSE "Damage detected successfully."

NoResult == [ inspectionId |-> None, damages |-> <<>>, message |-> None ]

\* before_p and after_p are the parameters before_path and after_path.
analyze_pair(fsys, before_p, after_p) ==
    LET b == run_yolo_on_image(fsys, before_p, "before")
    IN  IF b.exc # None THEN [ exc |-> b.exc, result |-> NoResult ]
        ELSE LET a == run_yolo_on_image(fsys, after_p, "after")
             IN  IF a.exc # None THEN [ exc |-> a.exc, result |-> NoResult ]
                 ELSE [ exc |-> None,
                        result |-> [ inspectionId |-> "AUTO-DEMO-001",
                                     damages |-> all_damages(b.damages, a.damages),
                                     message |-> summary_message(Len(b.damages),
                                                                 Len(a.damages)) ] ]

(***************************************************************************)
(* analyze_endpoint, lines 178-216.                                         *)
(*                                                                         *)
(* The handler is a coroutine on one event loop: it runs without            *)
(* interruption from one await to the next, and other requests' handlers    *)
(* run while it is suspended in "await before.read()" or                    *)
(* "await after.read()".                                                    *)
(***************************************************************************)
VARIABLES
    req,          \* req[r]: the multipart request r (its two UploadFiles)
    pc,           \* pc[r]: where the handler of r stands
    before_path,  \* the handler's local before_path, None while unassigned
    after_path,   \* the handler's local after_path, None while unassigned
    exc,          \* the exception e caught at line 205, None if none was raised
    rm_errors,    \* the paths whose os.remove raised at line 212 (swallowed)
    resp,         \* the response sent for r
    fs,           \* the files under /tmp: path -> bytes
    uuids,        \* the values uuid4() has returned so far
    orig_shape,   \* detector-reported (height, width) of the box under test
    xyxy_in,      \* a pixel box (x1, y1, x2, y2)
    bbox_out      \* its normalized box

mvars == <<req, pc, before_path, after_path, exc, rm_errors, resp, fs, uuids>>
bvars == <<orig_shape, xyxy_in, bbox_out>>
vars == <<req, pc, before_path, after_path, exc, rm_errors, resp, fs, uuids,
          orig_shape, xyxy_in, bbox_out>>

Reqs == 1..NumReqs

UUIDS == { ToString(i) : i \in 1..MaxUUID }

NoUpload == [ filename |-> None, data |-> "" ]
NoRequest == [ before |-> NoUpload, after |-> NoUpload ]

NoResponse == [ status |-> 0 ]

\* raise HTTPException(status_code=500, detail="AI analysis failed.")
HTTP500 == [ status |-> 500, detail |-> "AI analysis failed." ]

\* return result (response_model=AnalyzeResponse)
HTTP200(result) == [ status |-> 200, body |-> result ]

\* os.path.splitext(filename or "")[1] on the file names of the model.
splitext1(filename) ==
    CASE filename = "car.png" -> ".png"
      [] filename = "scan.v2.jpeg" -> ".jpeg"
      [] OTHER -> ""

\* os.path.splitext(f.filename or "")[1] or ".jpg"
suffix_of(filename) ==
    LET name == IF filename = None THEN "" ELSE filename
    IN  IF splitext1(name) = "" THEN ".jpg" ELSE splitext1(name)

\* Variant: the path without the uuid4 value.
temp_path_fixed(prefix, hex, suffix) == "/tmp" \o "/" \o prefix \o suffix

\* os.path.join(tmp_dir, f"before_{uuid4().hex}{before_suffix}")
temp_path(prefix, hex, suffix) == "/tmp" \o "/" \o prefix \o hex \o suffix

\* open(path, "wb") followed by write(bytes): the file holds exactly bytes.
FsWrite(f, p, bytes) == [ q \in (DOMAIN f) \cup {p} |-> IF q = p THEN bytes ELSE f[q] ]

\* os.remove on each path of ps.
FsRemove(f, ps) == [ q \in (DOMAIN f) \ ps |-> f[q] ]

\* Variant: only before_path is cleaned up.
cleanup_paths_before_only(bp, ap) == <<bp>>

\* Line 209: [locals().get("before_path"), locals().get("after_path")]
cleanup_paths(bp, ap) == <<bp, ap>>

\* Line 210: the paths of the list with "p and os.path.exists(p)".
Removable(f, bp, ap) ==
    { p \in { cleanup_paths(bp, ap)[i] : i \in DOMAIN cleanup_paths(bp, ap) } :
        p # None /\ p \in DOMAIN f }

\* Variant: os.remove outside a try, its exception reaching the framework.
endpoint_response_rm_raises(e, result, failing) ==
    IF failing # {} THEN [ status |-> 500, detail |-> "Internal Server Error" ]
    ELSE IF e # None THEN HTTP500
    ELSE HTTP200(result)

\* What the caller receives: lines 205-207 if e was raised, line 216 if not;
\* failing are the paths whose os.remove raised inside the try of line 211.
endpoint_response(e, result, failing) ==
    IF e # None THEN HTTP500 ELSE HTTP200(result)

\* The except and finally clauses and the return, from a file system f with
\* the locals bp and ap, e raised (or None) and result computed (if e is None).
Finish(r, f, bp, ap, e, result) ==
    \E failing \in SUBSET Removable(f, bp, ap) :
        /\ fs' = FsRemove(f, Removable(f, bp, ap) \ failing)
        /\ rm_errors' = [rm_errors EXCEPT ![r] = failing]
        /\ exc' = [exc EXCEPT ![r] = e]
        /\ resp' = [resp EXCEPT ![r] = endpoint_response(e, result, failing)]
        /\ pc' = [pc EXCEPT ![r] = "responded"]

\* The arrival of a request q and lines 187-198 up to the suspension in
\* "await before.read()".  io names the first call that raises, "ok" if none
\* does.  uuid4() is taken to return a value it has not returned before (any
\* such value): a repeated value has probability 2^-122 per pair of draws.
Begin(r, q) ==
    /\ pc[r] = "idle"
    /\ req' = [req EXCEPT ![r] = q]
    /\ \E io \in {"ok", "makedirs", "open_before"} :
         IF io = "makedirs"
         THEN /\ Finish(r, fs, None, None, "makedirs", NoResult)
              /\ UNCHANGED <<before_path, after_path, uuids>>
         ELSE \E u1 \in UUIDS \ uuids : \E u2 \in UUIDS \ (uuids \cup {u1}) :
                LET bp == temp_path("before_", u1, suffix_of(q.before.filename))
                    ap == temp_path("after_", u2, suffix_of(q.after.filename))
                IN  /\ uuids' = uuids \cup {u1, u2}
                    /\ before_path' = [before_path EXCEPT ![r] = bp]
                    /\ after_path' = [after_path EXCEPT ![r] = ap]
                    /\ IF io = "open_before"
                       THEN Finish(r, fs, bp, ap, "open_before", NoResult)
                       ELSE /\ fs' = FsWrite(fs, bp, "")
                            /\ pc' = [pc EXCEPT ![r] = "await_before"]
                            /\ UNCHANGED <<exc, rm_errors, resp>>
    /\ UNCHANGED bvars

\* From the resumption of "await before.read()" (line 198) to the suspension
\* in "await after.read()" (line 201).
ResumeBefore(r) ==
    /\ pc[r] = "await_before"
    /\ \E io \in {"ok", "read_before", "write_before", "open_after"} :
         LET bp == before_path[r]
             ap == after_path[r]
             written == FsWrite(fs, bp, req[r].before.data)
         IN  CASE io = "read_before" -> Finish(r, fs, bp, ap, io, NoResult)
               [] io = "write_before" -> Finish(r, fs, bp, ap, io, NoResult)
               [] io = "open_after" -> Finish(r, written, bp, ap, io, NoResult)
               [] OTHER -> /\ fs' = FsWrite(written, ap, "")
                           /\ pc' = [pc EXCEPT ![r] = "await_after"]
                           /\ UNCHANGED <<exc, rm_errors, resp>>
    /\ UNCHANGED <<req, before_path, after_path, uuids, bvars>>

\* From the resumption of "await after.read()" (line 201) through
\* analyze_pair, the except and finally clauses, to the response.
ResumeAfter(r) ==
    /\ pc[r] = "await_after"
    /\ \E io \in {"ok", "read_after", "write_after"} :
         LET bp == before_path[r]
             ap == after_path[r]
             written == FsWrite(fs, ap, req[r].after.data)
             out == analyze_pair(written, bp, ap)
         IN  IF io # "ok"
             THEN Finish(r, fs, bp, ap, io, NoResult)
             ELSE Finish(r, written, bp, ap, out.exc, out.result)
    /\ UNCHANGED <<req, before_path, after_path, uuids, bvars>>

\* The byte strings and file names clients upload.
AllBytes == {"garbage", "clean", "one", "two", "bad_crop", "bad_pred", "no_yolo"}
AllNames == {None, "car.png"}

Upload(filename, bytes) == [ filename |-> filename, data |-> bytes ]
Request(b, a) == [ before |-> b, after |-> a ]

\* Every request over the byte strings and file names above.
AllRequests ==
    { Request(Upload(f1, b1), Upload(f2, b2)) :
        f1 \in AllNames, b1 \in AllBytes, f2 \in AllNames, b2 \in AllBytes }

\* The requests of the concurrent specification: the same file names, so
\* that only the uuid4 values tell the paths of two requests apart.
ConcRequests ==
    { Request(Upload("car.png", "two"), Upload("car.png", "clean")),
      Request(Upload("car.png", "clean"), Upload("car.png", "two")) }

Init ==
    /\ req = [r \in Reqs |-> NoRequest]
    /\ pc = [r \in Reqs |-> "idle"]
    /\ before_path = [r \in Reqs |-> None]
    /\ after_path = [r \in Reqs |-> None]
    /\ exc = [r \in Reqs |-> None]
    /\ rm_errors = [r \in Reqs |-> {}]
    /\ resp = [r \in Reqs |-> NoResponse]
    /\ fs = [q \in {} |-> ""]
    /\ uuids = {}
    /\ orig_shape = <<1, 1>>
    /\ xyxy_in = <<FZero, FZero, FZero, FZero>>
    /\ bbox_out = [ x |-> FZero, y |-> FZero, width |-> FZero, height |-> FZero ]

\* One request, any upload.
Next ==
    \/ \E q \in AllRequests : Begin(1, q)
    \/ ResumeBefore(1)
    \/ ResumeAfter(1)

Spec == Init /\ [][Next]_vars

\* Up to NumReqs requests in flight at once.
NextConc ==
    \E r \in Reqs :
        \/ \E q \in ConcRequests : Begin(r, q)
        \/ ResumeBefore(r)
        \/ ResumeAfter(r)

SpecConc == Init /\ [][NextConc]_vars

(***************************************************************************)
(* The normalized box of every valid pixel box of the coordinate set.       *)
(***************************************************************************)
NoBBox == [ x |-> <<-1, 0>>, y |-> <<-1, 0>>, width |-> <<-1, 0>>, height |-> <<-1, 0>> ]

Dims == {1, MaxDim - 1, MaxDim}

\* 0 <= x1 <= x2 <= w and 0 <= y1 <= y2 <= h over the enumerated coordinates.
ValidBoxes(h, w) ==
    { b \in CoordSet(w) \X CoordSet(h) \X CoordSet(w) \X CoordSet(h) :
        FLeq(b[1], b[3]) /\ FLeq(b[2], b[4]) }

InitBBox ==
    /\ orig_shape \in Dims \X Dims
    /\ xyxy_in \in ValidBoxes(orig_shape[1], orig_shape[2])
    /\ bbox_out = NoBBox
    /\ req = [r \in Reqs |-> NoRequest]
    /\ pc = [r \in Reqs |-> "idle"]
    /\ before_path = [r \in Reqs |-> None]
    /\ after_path = [r \in Reqs |-> None]
    /\ exc = [r \in Reqs |-> None]
    /\ rm_errors = [r \in Reqs |-> {}]
    /\ resp = [r \in Reqs |-> NoResponse]
    /\ fs = [q \in {} |-> ""]
    /\ uuids = {}

\* Lines 111-132 on one box of the detector's output.
Normalize ==
    /\ bbox_out = NoBBox
    /\ bbox_out' = bbox_norm(xyxy_in, orig_shape[1], orig_shape[2])
    /\ UNCHANGED <<orig_shape, xyxy_in, mvars>>

NextBBox == Normalize

SpecBBox == InitBBox /\ [][NextBBox]_vars

(***************************************************************************)
(* Properties.                                                              *)
(***************************************************************************)
Responded(r) == pc[r] = "responded"

Succeeded(r) == Responded(r) /\ resp[r].status = 200

\* The detector's boxes for an uploaded byte string.
Boxes(bytes) == YoloResults(bytes).boxes

\* Some step of the analysis of these bytes raises.
BadBytes(bytes) ==
    \/ ~Decodable(bytes)
    \/ YoloRaises(bytes)
    \/ \E i \in DOMAIN Boxes(bytes) :
           Boxes(bytes)[i].crop # "ok" \/ Boxes(bytes)[i].preds = <<>>

\* The names the model gives to a raise of a file-system or upload call.
IOErrors ==
    {"makedirs", "open_before", "read_before", "write_before",
     "open_after", "read_after", "write_after"}

\* The number of records of a damages sequence tagged tag.
Tagged(damages, tag) == Cardinality({ i \in DOMAIN damages : damages[i].imageType = tag })

\* analyze_pair on the request's own two uploads, alone on an empty /tmp.
AloneOn(q) ==
    analyze_pair([ p \in {"b", "a"} |-> IF p = "b" THEN q.before.data ELSE q.after.data ],
                 "b", "a")

\* The same, for the requests of the concurrent specification.
AloneTable == { <<q, AloneOn(q)>> : q \in ConcRequests }

Alone(q) == (CHOOSE t \in AloneTable : t[1] = q)[2]

\* C1: the message of a successful response is decided by the two detection
\* counts alone, by the 2 x 2 table of the four messages, and is never null.
C1_MessageByCounts ==
    \A r \in Reqs :
        Succeeded(r) =>
            LET nb == Len(Boxes(req[r].before.data))
                na == Len(Boxes(req[r].after.data))
                m  == resp[r].body.message
            IN  /\ m # None
                /\ (nb = 0 /\ na = 0) => m = "No damage detected in either image."
                /\ (nb = 0 /\ na > 0) => m = "No damage detected in BEFORE image."
                /\ (nb > 0 /\ na = 0) => m = "No damage detected in AFTER image."
                /\ (nb > 0 /\ na > 0) => m = "Damage detected successfully."

\* A success with detections in the after image only.
C1_Witness ==
    /\ Succeeded(1)
    /\ Len(Boxes(req[1].before.data)) = 0
    /\ Len(Boxes(req[1].after.data)) = 2
    /\ resp[1].body.message = "No damage detected in BEFORE image."

\* C2: a request any step of which raised (a file or upload call, opening
\* either image, detection, cropping or classifying any box) is answered 500
\* with the fixed detail and with no damages.
C2_FailureIs500 ==
    \A r \in Reqs :
        (Responded(r) /\ (exc[r] # None \/ BadBytes(req[r].before.data)
                                        \/ BadBytes(req[r].after.data)))
            => resp[r] = [ status |-> 500, detail |-> "AI analysis failed." ]

\* The crop of the second box of the after image raised, after the before
\* image and the first box went through.
C2_Witness ==
    /\ Responded(1)
    /\ req[1].before.data = "two"
    /\ req[1].after.data = "bad_crop"
    /\ exc[1] = "crop_patch"
    /\ resp[1] = HTTP500

\* C3: once a request is answered, each of its two temporary paths that is
\* still on disk is one whose os.remove raised.
C3_TempFilesRemoved ==
    \A r \in Reqs :
        Responded(r) =>
            \A p \in {before_path[r], after_path[r]} :
                p \in DOMAIN fs => p \in rm_errors[r]

\* Both files were written, the analysis raised, and nothing is left on disk.
C3_Witness ==
    /\ Responded(1)
    /\ exc[1] = "load_image"
    /\ before_path[1] # None /\ after_path[1] # None
    /\ rm_errors[1] = {}
    /\ DOMAIN fs = {}

\* C4: in a successful response every "before" record comes before every
\* "after" record.
C4_BeforeThenAfter ==
    \A r \in Reqs :
        Succeeded(r) =>
            LET d == resp[r].body.damages
            IN  \A i, j \in DOMAIN d :
                    (d[i].imageType = "before" /\ d[j].imageType = "after") => i < j

\* Records of both tags, one detection in the before image and two in the
\* after image.
C4_Witness ==
    /\ Succeeded(1)
    /\ Tagged(resp[1].body.damages, "before") = 1
    /\ Tagged(resp[1].body.damages, "after") = 2

\* C5: a successful response holds one record per detection: as many
\* "before" records as the detector's boxes for the before image, as many
\* "after" records as for the after image, and nothing else.
C5_OneRecordPerDetection ==
    \A r \in Reqs :
        Succeeded(r) =>
            LET d == resp[r].body.damages
            IN  /\ Tagged(d, "before") = Len(Boxes(req[r].before.data))
                /\ Tagged(d, "after") = Len(Boxes(req[r].after.data))
                /\ Len(d) = Len(Boxes(req[r].before.data)) + Len(Boxes(req[r].after.data))

\* Two detections in the before image and one in the after image.
C5_Witness ==
    /\ Succeeded(1)
    /\ req[1].before.data = "two"
    /\ req[1].after.data = "one"
    /\ Len(resp[1].body.damages) = 3

\* C6: when some os.remove raised during cleanup, the caller still receives
\* the 200 result of its analysis, or the fixed 500 if a step had raised.
C6_CleanupErrorsInvisible ==
    \A r \in Reqs :
        (Responded(r) /\ rm_errors[r] # {}) =>
            resp[r] = IF exc[r] # None
                      THEN [ status |-> 500, detail |-> "AI analysis failed." ]
                      ELSE [ status |-> 200, body |-> AloneOn(req[r]).result ]

\* Both removals raised after a successful analysis.
C6_Witness ==
    /\ Succeeded(1)
    /\ Cardinality(rm_errors[1]) = 2
    /\ DOMAIN fs = rm_errors[1]

\* C7: no two records of one response share an id.
C7_UniqueIds ==
    \A r \in Reqs :
        Succeeded(r) =>
            LET d == resp[r].body.damages
            IN  \A i, j \in DOMAIN d : i # j => d[i].id # d[j].id

\* Two detections in each image: "before-0", "before-1", "after-0", "after-1".
C7_Witness ==
    /\ Succeeded(1)
    /\ Len(resp[1].body.damages) = 4
    /\ resp[1].body.damages[1].id = "before-0"
    /\ resp[1].body.damages[3].id = "after-0"

\* The relative rounding tolerance 2^-(MantBits - 2) above 1.
OnePlusTol == <<Pow2(MantBits - 2) + 1, MantBits - 2>>

Normalized == bbox_out # NoBBox

\* C8 as stated: for a valid pixel box, 0 <= x, 0 <= y, width >= 0,
\* height >= 0, x + width <= 1 and y + height <= 1 exactly.
C8_ExactBounds ==
    Normalized =>
        /\ FLeq(FZero, bbox_out.x) /\ FLeq(FZero, bbox_out.y)
        /\ FLeq(FZero, bbox_out.width) /\ FLeq(FZero, bbox_out.height)
        /\ FLeq(FAdd(bbox_out.x, bbox_out.width), FOne)
        /\ FLeq(FAdd(bbox_out.y, bbox_out.height), FOne)

\* C8 amended: for a valid pixel box, each of x, y, width and height lies in
\* [0, 1], and x + width and y + height exceed 1 by at most the rounding
\* tolerance 2^-(MantBits - 2).
C8_BoundsWithinTolerance ==
    Normalized =>
        /\ FLeq(FZero, bbox_out.x) /\ FLeq(bbox_out.x, FOne)
        /\ FLeq(FZero, bbox_out.y) /\ FLeq(bbox_out.y, FOne)
        /\ FLeq(FZero, bbox_out.width) /\ FLeq(bbox_out.width, FOne)
        /\ FLeq(FZero, bbox_out.height) /\ FLeq(bbox_out.height, FOne)
        /\ FLeq(FAdd(bbox_out.x, bbox_out.width), OnePlusTol)
        /\ FLeq(FAdd(bbox_out.y, bbox_out.height), OnePlusTol)

\* A box that starts inside the image and ends on its right edge: x2 - x1
\* rounds up, and x + width lies above 1 and within the tolerance.
C8_Witness ==
    /\ Normalized
    /\ xyxy_in[3] = FInt(orig_shape[2])
    /\ xyxy_in[1] # FZero
    /\ ~FLeq(FAdd(bbox_out.x, bbox_out.width), FOne)
    /\ FLeq(FAdd(bbox_out.x, bbox_out.width), OnePlusTol)

\* C9: two successful requests with byte-identical uploads receive the same
\* body (every field of every record, their order, and the message), whatever
\* their temporary paths and whatever ran before or between them.
C9_Deterministic ==
    \A r1, r2 \in Reqs :
        (/\ Succeeded(r1) /\ Succeeded(r2)
         /\ req[r1].before.data = req[r2].before.data
         /\ req[r1].after.data = req[r2].after.data)
            => resp[r1].body = resp[r2].body

\* The same uploads analysed twice under different temporary paths.
C9_Witness ==
    /\ Succeeded(1) /\ Succeeded(2)
    /\ req[1] = req[2]
    /\ before_path[1] # before_path[2]
    /\ after_path[1] # after_path[2]
    /\ Len(resp[1].body.damages) = 2

\* C10: with uuid4 never repeating a value, the temporary paths in use are
\* pairwise distinct; a suspended request finds the files it wrote still in
\* place with its own bytes; and a request none of whose file or upload calls
\* raised receives what analyze_pair gives on its own two uploads.
C10_Isolation ==
    /\ \A r \in Reqs : before_path[r] # None => before_path[r] # after_path[r]
    /\ \A r1, r2 \in Reqs :
           (r1 # r2 /\ before_path[r1] # None /\ before_path[r2] # None) =>
               {before_path[r1], after_path[r1]} \cap {before_path[r2], after_path[r2]} = {}
    /\ \A r \in Reqs :
           /\ pc[r] = "await_before" => before_path[r] \in DOMAIN fs
           /\ pc[r] = "await_after" =>
                  /\ before_path[r] \in DOMAIN fs
                  /\ after_path[r] \in DOMAIN fs
                  /\ fs[before_path[r]] = req[r].before.data
    /\ \A r \in Reqs :
           (Responded(r) /\ exc[r] \notin IOErrors) =>
               resp[r] = IF Alone(req[r]).exc # None
                         THEN HTTP500
                         ELSE HTTP200(Alone(req[r]).result)

\* Request 1 has been answered and has cleaned up while request 2, started
\* before that, is suspended with both of its files on disk.
C10_Witness ==
    /\ Succeeded(1)
    /\ rm_errors[1] = {}
    /\ pc[2] = "await_after"
    /\ DOMAIN fs = {before_path[2], after_path[2]}
    /\ req[1] # req[2]

====
